---- MODULE Spec2Model ----
(***************************************************************************)
(* pomelo: a directory-bookmarking CLI (src/main.rs).  One invocation of   *)
(* the program parses its command, loads ~/.pomelo/config.toml into a      *)
(* Config, runs the command's match arm and, for add / remove / edit,      *)
(* saves the Config back with save_config.                                 *)
(*                                                                         *)
(* The config file is modelled as the sequence of its TOML lines (or       *)
(* NoFile).  save_config is modelled step by step, as its system calls     *)
(* happen: the directory check, File::create (which truncates) and         *)
(* write_all (which writes at the handle's own offset, starting at 0).     *)
(***************************************************************************)
EXTENDS Integers, Sequences, FiniteSets, TLC

\* ------------------------------------------------------------------ bounds
\* Longest bookmark list in an initial config file of Spec.
MaxInit == 3
\* Invocations that may follow the first one in SpecSeq.
MaxSeqRestarts == 3
\* Longest bookmark list in an initial config file of SpecRace.
MaxRaceInit == 1

\* ------------------------------------------------------------------ inputs
\* The two invocations that may run at once (two terminal sessions).
Procs == {1, 2}
\* Values the CLI accepts for --alias / --new: any String, the empty one too.
Aliases == {"", "x", "y"}
\* Aliases of the bookmarks of an initial config file.
InitAliases == {"x", "y"}
\* Values of env::current_dir(): absolute, hence non-empty, paths.
Dirs == {"/p1", "/p2"}
\* The smaller inputs of the concurrent specification.
RaceAliases == {"x", "y"}
RaceDirs == {"/p1"}

\* The config file: absent, or present with its lines.
NoFile == [exists |-> FALSE, lines |-> <<>>]
File(lines) == [exists |-> TRUE, lines |-> lines]
\* An argument the subcommand does not have.
NoArg == "-"
\* saved is <<>> (no completed save in the file) or <<bookmarks>>.
NoSave == <<>>

VARIABLES
  file,      \* ~/.pomelo/config.toml: NoFile, or File(its lines)
  dir,       \* whether the directory ~/.pomelo exists
  pc,        \* pc[p]: where invocation p stands
  cmd,       \* cmd[p]: the parsed command line (cli.command)
  config,    \* config[p]: the Config's bookmarks (let mut config)
  out,       \* out[p]: the message the invocation printed
  restarts,  \* invocations started after a process's first one
  snapshot,  \* history: config[p] as load_or_initialize_config returned it
  file0,     \* history: the file when invocation p started
  saved,     \* history: the collection of the last completed save, while the file holds it
  expected,  \* history: the operations applied, in order, to the initial collection
  lastWriter,\* history: the invocation whose write_all completed last (0: none)
  overlapped \* history: a File::create ran between another save's create and write

vars == <<file, dir, pc, cmd, config, out, restarts, snapshot, file0, saved,
          expected, lastWriter, overlapped>>

\* ------------------------------------------------------------ data model
Bookmark(a, p) == [alias |-> a, path |-> p]

RECURSIVE SeqsUpTo(_, _)
SeqsUpTo(S, n) ==
  IF n = 0 THEN {<<>>}
  ELSE LET shorter == SeqsUpTo(S, n - 1)
       IN shorter \cup {Append(s, x) : s \in {t \in shorter : Len(t) = n - 1}, x \in S}

\* ------------------------------------------------------------ TOML lines
EmptyArr == "bookmarks = []"
TableHdr == "[[bookmarks]]"
AliasKey == "alias"
PathKey == "path"

Line(k, v) == <<k, v>>

\* toml::to_string(config) for the non-empty Vec: an array of tables, one table
\* per Bookmark, with the struct's fields in declaration order.
RECURSIVE SerializeTables(_)
SerializeTables(bs) ==
  IF bs = <<>> THEN <<>>
  ELSE << Line(TableHdr, ""), Line(AliasKey, bs[1].alias), Line(PathKey, bs[1].path) >>
       \o SerializeTables(Tail(bs))

\* Mutant: the serializer writes nothing for an empty Vec.
SerializeSkipEmpty(bs) == SerializeTables(bs)

\* toml::to_string(config): an empty Vec is the inline array `bookmarks = []`.
Serialize(bs) ==
  IF bs = <<>> THEN << Line(EmptyArr, "") >> ELSE SerializeTables(bs)

\* toml::from_str::<Config>(contents).  The lines before the first table header
\* are the top-level keys, the lines after a header that table's keys.  A key
\* given twice in one table, a [[bookmarks]] table after the inline array, a
\* table without alias or path, and a document without bookmarks are errors;
\* keys the structs do not have are ignored (no deny_unknown_fields).
Headers(lines) == {i \in 1..Len(lines) : lines[i][1] = TableHdr}

SectionEnd(lines, h) ==
  LET later == {g \in Headers(lines) : g > h}
  IN IF later = {} THEN Len(lines)
     ELSE (CHOOSE g \in later : \A g2 \in later : g <= g2) - 1

HasKey(lines, from, to, key) == \E i \in from..to : lines[i][1] = key

DupKey(lines, from, to) ==
  \E i, j \in from..to : i < j /\ lines[i][1] = lines[j][1]

ValueOf(lines, from, to, key) ==
  lines[CHOOSE i \in from..to : lines[i][1] = key][2]

Parse(lines) ==
  LET hs == Headers(lines)
      topEnd == SectionEnd(lines, 0)
      TableOk(h) == /\ ~DupKey(lines, h + 1, SectionEnd(lines, h))
                    /\ HasKey(lines, h + 1, SectionEnd(lines, h), AliasKey)
                    /\ HasKey(lines, h + 1, SectionEnd(lines, h), PathKey)
      ok == /\ ~DupKey(lines, 1, topEnd)
            /\ HasKey(lines, 1, topEnd, EmptyArr) <=> (hs = {})
            /\ \A h \in hs : TableOk(h)
      Nth(k) == CHOOSE h \in hs : Cardinality({g \in hs : g < h}) = k - 1
  IN [ok |-> ok,
      bookmarks |->
        IF ok THEN [k \in 1..Cardinality(hs) |->
                      Bookmark(ValueOf(lines, Nth(k) + 1, SectionEnd(lines, Nth(k)), AliasKey),
                               ValueOf(lines, Nth(k) + 1, SectionEnd(lines, Nth(k)), PathKey))]
        ELSE <<>>]

\* ------------------------------------------------------- file system calls
\* Mutant: the file is opened for writing without being truncated.
CreateKeep(f) == IF f.exists THEN f ELSE File(<<>>)

\* File::create(&config_path): the file is created empty or truncated to empty.
CreateTruncate(f) == File(<<>>)

\* file.write_all(bytes) on a fresh handle: the bytes go in at offset 0 and
\* replace what is there; what lies beyond them stays.
WriteAt0(f, lines) == File(lines \o SubSeq(f.lines, Len(lines) + 1, Len(f.lines)))

\* ------------------------------------------------------ the match arms
\* Mutant: the scan reports the last match (rposition).
RECURSIVE PositionLastFrom(_, _, _)
PositionLastFrom(bs, alias, i) ==
  IF i < 1 THEN 0
  ELSE IF bs[i].alias = alias THEN i ELSE PositionLastFrom(bs, alias, i - 1)

PositionLast(bs, alias) == PositionLastFrom(bs, alias, Len(bs))

\* Mutant: no match falls back to the first element (unwrap_or(0)).
PositionOrFirst(bs, alias) ==
  LET hit == {i \in 1..Len(bs) : bs[i].alias = alias}
  IN IF hit /= {} THEN CHOOSE i \in hit : \A j \in hit : i <= j
     ELSE IF bs = <<>> THEN 0 ELSE 1

\* iter().position(|b| b.alias == *alias) and iter_mut().find(|b| b.alias == *alias):
\* the scan from the front, stopping at the first match.  0 is None; indices are
\* the Vec's plus one.
RECURSIVE PositionFrom(_, _, _)
PositionFrom(bs, alias, i) ==
  IF i > Len(bs) THEN 0
  ELSE IF bs[i].alias = alias THEN i ELSE PositionFrom(bs, alias, i + 1)

Position(bs, alias) == PositionFrom(bs, alias, 1)

\* Vec::remove(index): the elements after index shift left by one.
VecRemove(bs, i) == SubSeq(bs, 1, i - 1) \o SubSeq(bs, i + 1, Len(bs))

\* Mutant: add refuses an alias that is already bookmarked.
AddUnique(bs, alias, cwd) ==
  IF \E i \in 1..Len(bs) : bs[i].alias = alias THEN bs
  ELSE Append(bs, Bookmark(alias, cwd))

\* Commands::Add: config.bookmarks.push(Bookmark { alias, path: current_dir }).
AddArm(bs, alias, cwd) == Append(bs, Bookmark(alias, cwd))

\* Commands::Remove: the first match is removed, or nothing is.
RemoveArm(bs, alias) ==
  LET index == Position(bs, alias)
  IN IF index /= 0 THEN [bookmarks |-> VecRemove(bs, index), out |-> "removed"]
     ELSE [bookmarks |-> bs, out |-> "not_found"]

\* Mutant: edit renames every match.
EditAll(bs, alias, new) ==
  IF \E i \in 1..Len(bs) : bs[i].alias = alias
  THEN [bookmarks |-> [i \in 1..Len(bs) |->
                         IF bs[i].alias = alias THEN [bs[i] EXCEPT !.alias = new]
                         ELSE bs[i]],
        out |-> "updated"]
  ELSE [bookmarks |-> bs, out |-> "not_found"]

\* Commands::Edit: the first match gets the new alias, or nothing changes.
EditArm(bs, alias, new) ==
  LET index == Position(bs, alias)
  IN IF index /= 0
     THEN [bookmarks |-> [bs EXCEPT ![index].alias = new], out |-> "updated"]
     ELSE [bookmarks |-> bs, out |-> "not_found"]

\* Commands::List: the empty message, or the numbered listing.
ListArm(bs) == IF bs = <<>> THEN "empty_list" ELSE "listed"

\* Mutant: only the arm of add calls save_config.
SavesAddOnly(op) == op = "add"

\* The arms that end in save_config(&config).
Saves(op) == op \in {"add", "remove", "edit"}

\* ------------------------------------- what the specification says of the arms
\* (used by the properties and by the history variable expected, not by the
\* program's steps)
HasAlias(bs, a) == \E i \in 1..Len(bs) : bs[i].alias = a

FirstMatch(bs, a) ==
  CHOOSE i \in 1..Len(bs) : bs[i].alias = a /\ \A j \in 1..(i - 1) : bs[j].alias /= a

Without(bs, i) == [j \in 1..(Len(bs) - 1) |-> IF j < i THEN bs[j] ELSE bs[j + 1]]

Renamed(bs, i, new) ==
  [j \in 1..Len(bs) |-> IF j = i THEN Bookmark(new, bs[j].path) ELSE bs[j]]

Applied(bs, c) ==
  CASE c.op = "add" -> bs \o << Bookmark(c.alias, c.cwd) >>
    [] c.op = "remove" ->
         IF HasAlias(bs, c.alias) THEN Without(bs, FirstMatch(bs, c.alias)) ELSE bs
    [] c.op = "edit" ->
         IF HasAlias(bs, c.alias) THEN Renamed(bs, FirstMatch(bs, c.alias), c.new) ELSE bs
    [] OTHER -> bs

IsPrefix(s, t) == Len(s) <= Len(t) /\ SubSeq(t, 1, Len(s)) = s

\* --------------------------------------------------------------- commands
\* Cli::parse(): the subcommand and its required arguments.
Cmds(A, D) ==
  {[op |-> "add", alias |-> a, new |-> NoArg, cwd |-> d] : a \in A, d \in D}
  \cup {[op |-> "remove", alias |-> a, new |-> NoArg, cwd |-> NoArg] : a \in A}
  \cup {[op |-> "edit", alias |-> a, new |-> n, cwd |-> NoArg] : a \in A, n \in A}
  \cup {[op |-> "list", alias |-> NoArg, new |-> NoArg, cwd |-> NoArg]}
  \cup {[op |-> "jump", alias |-> a, new |-> NoArg, cwd |-> NoArg] : a \in A}

NoCmd == [op |-> "none", alias |-> NoArg, new |-> NoArg, cwd |-> NoArg]

\* ------------------------------------------------------------------ Init
InitBookmarks(A, D) == {Bookmark(a, d) : a \in A, d \in D}

InitWith(bss, absent) ==
  /\ \E bs \in bss, there \in (IF absent THEN BOOLEAN ELSE {TRUE}) :
       /\ file = IF there THEN File(Serialize(bs)) ELSE NoFile
       /\ expected = IF there THEN bs ELSE <<>>
       /\ saved = IF there THEN <<bs>> ELSE NoSave
  /\ dir \in BOOLEAN
  /\ file.exists => dir
  /\ pc = [p \in Procs |-> "idle"]
  /\ cmd = [p \in Procs |-> NoCmd]
  /\ config = [p \in Procs |-> <<>>]
  /\ out = [p \in Procs |-> "none"]
  /\ restarts = 0
  /\ snapshot = [p \in Procs |-> <<>>]
  /\ file0 = [p \in Procs |-> file]
  /\ lastWriter = 0
  /\ overlapped = FALSE

\* Any config file earlier invocations may have left, or none.
Init == InitWith(SeqsUpTo(InitBookmarks(InitAliases, Dirs), MaxInit), TRUE)

\* ---------------------------------------------------------------- actions
\* fn main, line 96: the process starts and parses its command line.
Begin(p, c) ==
  /\ pc' = [pc EXCEPT ![p] = "start"]
  /\ cmd' = [cmd EXCEPT ![p] = c]
  /\ config' = [config EXCEPT ![p] = <<>>]
  /\ out' = [out EXCEPT ![p] = "none"]
  /\ snapshot' = [snapshot EXCEPT ![p] = <<>>]
  /\ file0' = [file0 EXCEPT ![p] = file]
  /\ UNCHANGED <<file, dir, saved, expected, lastWriter, overlapped>>

Start(p) ==
  /\ pc[p] = "idle"
  /\ \E c \in Cmds(Aliases, Dirs) : Begin(p, c)
  /\ UNCHANGED restarts

\* The command lines of a sequence of add, edit and remove invocations.
SeqCmds == {c \in Cmds(Aliases, Dirs) : c.op \in {"add", "edit", "remove"}}

\* The first invocation of such a sequence.
SeqStart(p) ==
  /\ pc[p] = "idle"
  /\ \E c \in SeqCmds : Begin(p, c)
  /\ UNCHANGED restarts

\* The process has exited; the user runs the program again.
SeqRestart(p) ==
  /\ pc[p] = "done"
  /\ restarts < MaxSeqRestarts
  /\ restarts' = restarts + 1
  /\ \E c \in SeqCmds : Begin(p, c)

\* One of two invocations started from two terminal sessions.
RaceStart(p) ==
  /\ pc[p] = "idle"
  /\ \E c \in Cmds(RaceAliases, RaceDirs) : Begin(p, c)
  /\ UNCHANGED restarts

\* load_or_initialize_config: the file is read and parsed (Ok arm), or it is
\* absent and the Config is empty (Err arm).
Load(p) ==
  /\ pc[p] = "start"
  /\ file.exists => Parse(file.lines).ok
  /\ LET bs == IF file.exists THEN Parse(file.lines).bookmarks ELSE <<>>
     IN /\ config' = [config EXCEPT ![p] = bs]
        /\ snapshot' = [snapshot EXCEPT ![p] = bs]
  /\ pc' = [pc EXCEPT ![p] = "loaded"]
  /\ UNCHANGED <<file, dir, cmd, out, restarts, file0, saved, expected, lastWriter, overlapped>>

\* load_or_initialize_config: read_to_string fails on a file that exists (Err arm).
LoadUnreadable(p) ==
  /\ pc[p] = "start"
  /\ file.exists
  /\ config' = [config EXCEPT ![p] = <<>>]
  /\ snapshot' = [snapshot EXCEPT ![p] = <<>>]
  /\ pc' = [pc EXCEPT ![p] = "loaded"]
  /\ UNCHANGED <<file, dir, cmd, out, restarts, file0, saved, expected, lastWriter, overlapped>>

\* load_or_initialize_config: toml::from_str fails and unwrap() panics.
LoadPanic(p) ==
  /\ pc[p] = "start"
  /\ file.exists
  /\ ~Parse(file.lines).ok
  /\ pc' = [pc EXCEPT ![p] = "panicked_load"]
  /\ UNCHANGED <<file, dir, cmd, config, out, restarts, snapshot, file0, saved, expected,
                 lastWriter, overlapped>>

\* match &cli.command: the arm of the command, up to its call of save_config.
MatchArm(p) ==
  /\ pc[p] = "loaded"
  /\ LET c == cmd[p]
         bs == config[p]
         r == CASE c.op = "add" -> [bookmarks |-> AddArm(bs, c.alias, c.cwd), out |-> "none"]
                [] c.op = "remove" -> RemoveArm(bs, c.alias)
                [] c.op = "edit" -> EditArm(bs, c.alias, c.new)
                [] c.op = "list" -> [bookmarks |-> bs, out |-> ListArm(bs)]
                [] OTHER -> [bookmarks |-> bs, out |-> "none"]
     IN /\ config' = [config EXCEPT ![p] = r.bookmarks]
        /\ out' = [out EXCEPT ![p] = r.out]
        /\ pc' = [pc EXCEPT ![p] = IF Saves(c.op) THEN "save" ELSE "done"]
        /\ expected' = Applied(expected, c)
  /\ UNCHANGED <<file, dir, cmd, restarts, snapshot, file0, saved, lastWriter, overlapped>>

\* save_config, lines 75-80: the directory exists or create_dir_all makes it.
EnsureDir(p) ==
  /\ pc[p] = "save"
  /\ dir' = TRUE
  /\ pc' = [pc EXCEPT ![p] = "create"]
  /\ UNCHANGED <<file, cmd, config, out, restarts, snapshot, file0, saved, expected,
                 lastWriter, overlapped>>

\* save_config, line 79: create_dir_all fails and expect() panics.
EnsureDirFail(p) ==
  /\ pc[p] = "save"
  /\ ~dir
  /\ pc' = [pc EXCEPT ![p] = "panicked_dir"]
  /\ UNCHANGED <<file, dir, cmd, config, out, restarts, snapshot, file0, saved, expected,
                 lastWriter, overlapped>>

\* save_config, line 83: File::create creates or truncates the file.
CreateFile(p) ==
  /\ pc[p] = "create"
  /\ file' = CreateTruncate(file)
  /\ saved' = NoSave
  /\ overlapped' = (overlapped \/ \E q \in Procs \ {p} : pc[q] = "write")
  /\ pc' = [pc EXCEPT ![p] = "write"]
  /\ UNCHANGED <<dir, cmd, config, out, restarts, snapshot, file0, expected, lastWriter>>

\* save_config, line 83: File::create fails and expect() panics.
CreateFileFail(p) ==
  /\ pc[p] = "create"
  /\ pc' = [pc EXCEPT ![p] = "panicked_create"]
  /\ UNCHANGED <<file, dir, cmd, config, out, restarts, snapshot, file0, saved, expected,
                 lastWriter, overlapped>>

\* save_config, line 84: write_all writes the whole serialization; the arm of add
\* then prints its message and main returns.
WriteAll(p) ==
  /\ pc[p] = "write"
  /\ file' = WriteAt0(file, Serialize(config[p]))
  /\ saved' = <<config[p]>>
  /\ lastWriter' = p
  /\ out' = [out EXCEPT ![p] = IF cmd[p].op = "add" THEN "added" ELSE @]
  /\ pc' = [pc EXCEPT ![p] = "done"]
  /\ UNCHANGED <<dir, cmd, config, restarts, snapshot, file0, expected, overlapped>>

\* save_config, line 84: write_all fails after some of the lines (or none) and
\* expect() panics.
WriteAllFail(p) ==
  /\ pc[p] = "write"
  /\ \E k \in 0..(Len(Serialize(config[p])) - 1) :
       file' = WriteAt0(file, SubSeq(Serialize(config[p]), 1, k))
  /\ pc' = [pc EXCEPT ![p] = "panicked_write"]
  /\ UNCHANGED <<dir, cmd, config, out, restarts, snapshot, file0, saved, expected,
                 lastWriter, overlapped>>

\* --------------------------------------------------------- specifications
\* Spec: one invocation, from any config file, with every I/O failure the code
\* handles or panics on.
Next ==
  \/ Start(1)
  \/ Load(1)
  \/ LoadUnreadable(1)
  \/ MatchArm(1)
  \/ EnsureDir(1)
  \/ EnsureDirFail(1)
  \/ CreateFile(1)
  \/ CreateFileFail(1)
  \/ WriteAll(1)
  \/ WriteAllFail(1)

Spec == Init /\ [][Next]_vars

\* SpecSeq: add, edit and remove invocations one after another, starting with no
\* config file, without I/O failure.
InitSeq == InitWith({<<>>}, TRUE) /\ ~file.exists

NextSeq ==
  \/ SeqStart(1)
  \/ SeqRestart(1)
  \/ Load(1)
  \/ MatchArm(1)
  \/ EnsureDir(1)
  \/ CreateFile(1)
  \/ WriteAll(1)

SpecSeq == InitSeq /\ [][NextSeq]_vars

\* SpecRace: two invocations at once on the same config file, their steps
\* interleaved in any order, without I/O failure.
InitRace == InitWith(SeqsUpTo(InitBookmarks(RaceAliases, RaceDirs), MaxRaceInit), TRUE)

NextRace ==
  \E p \in Procs :
    \/ RaceStart(p)
    \/ Load(p)
    \/ LoadPanic(p)
    \/ MatchArm(p)
    \/ EnsureDir(p)
    \/ CreateFile(p)
    \/ WriteAll(p)

SpecRace == InitRace /\ [][NextRace]_vars

\* ------------------------------------------------------------ properties
\* The invocation's match arm has run.
PostArm(p) ==
  pc[p] \in {"save", "create", "write", "done",
             "panicked_dir", "panicked_create", "panicked_write"}

\* C1 (SpecSeq): a collection saved by save_config and then loaded by
\* load_or_initialize_config, with no writer in between, comes back as it was
\* saved: the load does not fail, and it yields the same bookmarks (aliases and
\* paths) in the same order.
RoundTrip ==
  /\ saved /= NoSave => (file.exists /\ Parse(file.lines).ok)
  /\ \A p \in Procs : (pc[p] = "loaded" /\ saved /= NoSave) => config[p] = saved[1]

RoundTripWitness ==
  /\ pc[1] = "loaded"
  /\ saved /= NoSave
  /\ config[1] = <<Bookmark("x", "/p1"), Bookmark("", "/p2"), Bookmark("x", "/p2")>>

\* C2 (Spec): when the loaded collection has a bookmark with the alias, remove
\* deletes the lowest-index one and nothing else: the bookmarks before it keep
\* their places, those after it (later duplicates too) move up by one, and the
\* length drops by one.
RemoveFirstMatch ==
  \A p \in Procs :
    (PostArm(p) /\ cmd[p].op = "remove" /\ HasAlias(snapshot[p], cmd[p].alias)) =>
      LET i == FirstMatch(snapshot[p], cmd[p].alias)
      IN /\ Len(config[p]) = Len(snapshot[p]) - 1
         /\ \A j \in 1..(i - 1) : config[p][j] = snapshot[p][j]
         /\ \A j \in i..Len(config[p]) : config[p][j] = snapshot[p][j + 1]
         /\ out[p] = "removed"

RemoveFirstMatchWitness ==
  /\ pc[1] = "done"
  /\ cmd[1].op = "remove"
  /\ cmd[1].alias = "x"
  /\ snapshot[1] = <<Bookmark("x", "/p1"), Bookmark("y", "/p2"), Bookmark("x", "/p2")>>
  /\ config[1] = <<Bookmark("y", "/p2"), Bookmark("x", "/p2")>>

\* C3 (Spec): when the loaded collection has a bookmark with alias old, edit
\* gives the lowest-index one the new alias in place: same position, same path,
\* same length, every other bookmark (later duplicates of old too) unchanged.
RenameFirstMatch ==
  \A p \in Procs :
    (PostArm(p) /\ cmd[p].op = "edit" /\ HasAlias(snapshot[p], cmd[p].alias)) =>
      LET i == FirstMatch(snapshot[p], cmd[p].alias)
      IN /\ Len(config[p]) = Len(snapshot[p])
         /\ config[p][i].alias = cmd[p].new
         /\ config[p][i].path = snapshot[p][i].path
         /\ \A j \in 1..Len(config[p]) : j /= i => config[p][j] = snapshot[p][j]
         /\ out[p] = "updated"

RenameFirstMatchWitness ==
  /\ pc[1] = "done"
  /\ cmd[1].op = "edit"
  /\ snapshot[1] = <<Bookmark("x", "/p1"), Bookmark("x", "/p2")>>
  /\ config[1] = <<Bookmark("y", "/p1"), Bookmark("x", "/p2")>>

\* C4 (Spec): add on a collection of length N yields length N+1, the first N
\* bookmarks being the original ones in order and the last one (alias, cwd),
\* also when the alias is already bookmarked; an add that completes reports
\* success.
AddAppends ==
  \A p \in Procs :
    (PostArm(p) /\ cmd[p].op = "add") =>
      /\ Len(config[p]) = Len(snapshot[p]) + 1
      /\ \A j \in 1..Len(snapshot[p]) : config[p][j] = snapshot[p][j]
      /\ config[p][Len(config[p])] = Bookmark(cmd[p].alias, cmd[p].cwd)
      /\ pc[p] = "done" => out[p] = "added"

AddAppendsWitness ==
  /\ pc[1] = "done"
  /\ cmd[1].op = "add"
  /\ out[1] = "added"
  /\ Len(snapshot[1]) = 2
  /\ HasAlias(snapshot[1], cmd[1].alias)

\* C5 (Spec): remove and edit with an alias no bookmark of the loaded collection
\* has report not-found and leave the in-memory collection as it was loaded.
NotFoundNoOp ==
  \A p \in Procs :
    (PostArm(p) /\ cmd[p].op \in {"remove", "edit"} /\ ~HasAlias(snapshot[p], cmd[p].alias)) =>
      /\ config[p] = snapshot[p]
      /\ out[p] = "not_found"

NotFoundNoOpWitness ==
  /\ pc[1] = "done"
  /\ cmd[1].op = "edit"
  /\ out[1] = "not_found"
  /\ Len(snapshot[1]) = 2

\* C6 (Spec), the claim as stated: an invocation that ends in not-found or in
\* the empty-list outcome leaves the config file as it was when the invocation
\* started, its existence and its contents.
ExpectedOutcomeKeepsFile ==
  \A p \in Procs :
    (pc[p] = "done" /\ out[p] \in {"not_found", "empty_list"}) => file = file0[p]

\* C7 (SpecRace): when both invocations have completed and their saves did not
\* overlap, the file is the serialization of what the invocation that saved last
\* made of its own snapshot: last writer wins, whatever the other one saved.
LastWriterWins ==
  ((\A p \in Procs : pc[p] = "done") /\ lastWriter /= 0 /\ ~overlapped) =>
    file = File(Serialize(Applied(snapshot[lastWriter], cmd[lastWriter])))

\* Both invocations added a bookmark and reported success, and the file has
\* only the last writer's.
LostUpdateWitness ==
  /\ \A p \in Procs : pc[p] = "done" /\ out[p] = "added"
  /\ ~overlapped
  /\ cmd[1].alias /= cmd[2].alias
  /\ \E q \in Procs :
       /\ q /= lastWriter
       /\ Parse(file.lines).ok
       /\ ~HasAlias(Parse(file.lines).bookmarks, cmd[q].alias)
       /\ HasAlias(Parse(file.lines).bookmarks, cmd[lastWriter].alias)

\* C8 (Spec), the claim as stated: every bookmark in memory and in the persisted
\* file has a non-empty alias and a non-empty path.
BookmarkInvariant ==
  /\ \A p \in Procs : \A i \in 1..Len(config[p]) :
       config[p][i].alias /= "" /\ config[p][i].path /= ""
  /\ (file.exists /\ Parse(file.lines).ok) =>
       \A i \in 1..Len(Parse(file.lines).bookmarks) :
         /\ Parse(file.lines).bookmarks[i].alias /= ""
         /\ Parse(file.lines).bookmarks[i].path /= ""

\* C9 (Spec), the claim as stated: at every point during and after save_config
\* the file holds the complete previous contents (or is still absent) or the
\* complete serialization of the new collection.
SaveAtomic ==
  \A p \in Procs :
    (PostArm(p) /\ Saves(cmd[p].op)) => file \in {file0[p], File(Serialize(config[p]))}

\* C9 (Spec), amended: a failure of the directory creation or of File::create
\* leaves the file as it was; from File::create to the end of write_all the file
\* is empty; after a failed write_all it is a proper prefix of the new
\* serialization; after a completed save it is the complete new serialization.
SaveStages ==
  \A p \in Procs :
    /\ pc[p] \in {"save", "create", "panicked_dir", "panicked_create"} => file = file0[p]
    /\ pc[p] = "write" => file = File(<<>>)
    /\ pc[p] = "panicked_write" =>
         /\ file.exists
         /\ IsPrefix(file.lines, Serialize(config[p]))
         /\ file.lines /= Serialize(config[p])
    /\ (pc[p] = "done" /\ Saves(cmd[p].op)) => file = File(Serialize(config[p]))

\* A write failed part way: the file is neither the old nor the new collection,
\* and a load of it fails.
SaveStagesWitness ==
  /\ pc[1] = "panicked_write"
  /\ file0[1].exists
  /\ file.lines /= <<>>
  /\ file /= file0[1]
  /\ ~Parse(file.lines).ok

\* C10 (SpecSeq): after every sequence of add, edit and remove invocations run
\* one after another from no config file, the file exists, parses, and holds the
\* collection the same operations make of the empty collection; when that
\* collection is empty the file is the empty bookmarks array.
SeqPersistence ==
  \A p \in Procs :
    pc[p] = "done" =>
      /\ file.exists
      /\ Parse(file.lines) = [ok |-> TRUE, bookmarks |-> expected]
      /\ expected = <<>> => file.lines = << Line(EmptyArr, "") >>

SeqPersistenceWitness ==
  /\ pc[1] = "done"
  /\ restarts = 3
  /\ cmd[1].op = "remove"
  /\ out[1] = "removed"
  /\ expected = <<>>
  /\ file = File(<< Line(EmptyArr, "") >>)

====
